---- MODULE Spec2Model ----
(***************************************************************************)
(* The two chat clients of the repository as one state machine:            *)
(*   variant = "multi" : MCPChatBot  (src/chatbot_mcp_multi.py)            *)
(*   variant = "tools" : MCP_ChatBot (src/chatbot_mcp_tools.py)            *)
(* The model API, the tool servers and the console are the environment:    *)
(* what they return (a response, a tool result, an exception, an input     *)
(* line) is chosen with \E from small sets.                                *)
(***************************************************************************)
EXTENDS Integers, Sequences, FiniteSets, TLC

(* ------------------------------ bounds --------------------------------- *)
\* longest model response, in content blocks
MaxBlocks == 2
\* most servers in server_config.json
MaxServers == 2
\* most queries typed in one session
MaxTurns == 2
\* the model stops asking for tools once the multi-server transcript would
\* grow past this many messages (that program has no ceiling of its own)
MaxTranscript == 5
\* the history counter model_calls of the multi-server program, which has no
\* round ceiling, saturates here ("CallCap or more")
CallCap == 2

(* --------------------------- program constants ------------------------- *)
max_iterations == 10

(* ------------------------------ helpers -------------------------------- *)
Min(a, b) == IF a < b THEN a ELSE b

Reverse(s) == [i \in 1..Len(s) |-> s[Len(s) + 1 - i]]

RECURSIVE SeqsUpTo(_, _)
\* all sequences over S of length 0..n
SeqsUpTo(S, n) ==
    IF n = 0 THEN {<<>>}
    ELSE LET shorter == SeqsUpTo(S, n - 1)
         IN  shorter \cup {Append(s, x) : s \in shorter, x \in S}

(* ------------------------- the environment's data ---------------------- *)
\* tool names a server may advertise
ToolNames == {"search", "fetch"}
\* a name the model may ask for although no server advertises it
UnknownTool == "bogus"
\* the tool lists a server may advertise (list_tools)
ToolLists == {<<"search">>, <<"search", "fetch">>}
\* the contents of server_config.json: the servers in file order, each
\* standing for the tool list it will advertise
Configs == SeqsUpTo(ToolLists, MaxServers)

\* characters of the console input
LowerOf(c) ==
    CASE c = "Q" -> "q" [] c = "U" -> "u" [] c = "I" -> "i" [] c = "T" -> "t"
      [] c = "H" -> "h" [] OTHER -> c

\* str.lower()
Lower(s) == [i \in 1..Len(s) |-> LowerOf(s[i])]

IsSpace(c) == c = " "

RECURSIVE LStrip(_)
LStrip(s) == IF s # <<>> /\ IsSpace(Head(s)) THEN LStrip(Tail(s)) ELSE s

\* str.strip()
Strip(s) == Reverse(LStrip(Reverse(LStrip(s))))

QuitWord == <<"q", "u", "i", "t">>

\* the lines the user may type
InputLines ==
    { <<"q", "u", "i", "t">>, <<"Q", "U", "I", "T">>, <<" ", "Q", "u", "i", "t", " ">>,
      <<"h", "i">>, <<" ", "q", "u", "i", "t", "s">> }

\* result.content of a successful call_tool
ToolResult == <<"y">>

(* ------------------------------ messages ------------------------------- *)
NoId == <<0, 0>>

TextBlock == [type |-> "text", id |-> NoId, name |-> ""]

ToolUseBlock(id, name) == [type |-> "tool_use", id |-> id, name |-> name]

\* {'role': 'user', 'content': query}
UserMessage(query) ==
    [role |-> "user", type |-> "query", content |-> <<>>, tool_use_id |-> NoId,
     body |-> query]

\* {'role': 'assistant', 'content': blocks}
AssistantMessage(blocks) ==
    [role |-> "assistant", type |-> "blocks", content |-> blocks,
     tool_use_id |-> NoId, body |-> <<>>]

\* {'role': 'user', 'content': [{'type': 'tool_result', ...}]}
ToolResultMessage(id, result) ==
    [role |-> "user", type |-> "tool_result", content |-> <<>>, tool_use_id |-> id,
     body |-> result]

\* the names the model may put in a tool-use block
RequestNames(v) == IF v = "multi" THEN ToolNames \cup {UnknownTool} ELSE {"search"}

\* the shapes of a response: per block, "text" or the tool name asked for
Shapes(v) == SeqsUpTo({"text"} \cup RequestNames(v), MaxBlocks)

\* number of tool-use blocks among the first n entries of a shape
RECURSIVE UsesBefore(_, _)
UsesBefore(shape, n) ==
    IF n = 0 THEN 0
    ELSE UsesBefore(shape, n - 1) + (IF shape[n] = "text" THEN 0 ELSE 1)

\* response.content for a shape: the API gives the k-th tool-use block of
\* the response to a transcript of length len the fresh id <<len, k>>
MakeResponse(shape, len) ==
    [i \in 1..Len(shape) |->
        IF shape[i] = "text" THEN TextBlock
        ELSE ToolUseBlock(<<len, UsesBefore(shape, i)>>, shape[i])]

\* the tool-use blocks of a response, in order
ToolUses(resp) == SelectSeq(resp, LAMBDA b : b.type = "tool_use")

\* the ids of a sequence of blocks or of calls
IdsOf(s) == [i \in 1..Len(s) |-> s[i].id]

(* ------------------------------- state --------------------------------- *)
VARIABLES
    variant,            \* which program runs
    pc,                 \* where main is
    exc,                \* the exception that is propagating, or "none"
    servers,            \* server_config.json
    conn_idx,           \* next server of the loop in connect_to_servers
    attempted,          \* history: servers connect_to_server was called for
    failed_server,      \* history: the server whose connection raised, or 0
    sessions,           \* self.sessions / self.session
    exit_stack,         \* the open context managers, oldest first
    acquired,           \* history: every handle ever entered
    released,           \* history: every handle exited, in order
    tool_to_session,    \* self.tool_to_session
    available_tools,    \* self.available_tools
    turn,               \* history: turns started
    errors_reported,    \* history: failures printed by chat_loop
    line,               \* history: the line input() gave the loop pass in progress
    messages,           \* the transcript of the current turn
    process_query,      \* the loop flag of MCPChatBot.process_query
    iteration,          \* the loop counter of MCP_ChatBot.process_query
    warned,             \* "Maximum iterations reached" was printed
    response,           \* response.content of the last model call
    idx,                \* position of the for loop in response.content
    assistant_content,  \* the list assistant_content of the current round
    aliases,            \* the messages whose content IS that list object
    model_calls,        \* history: model requests of this turn (saturating)
    calls,              \* history: call_tool requests of this round
    emitted,            \* history: text blocks printed in this round
    round_base          \* history: Len(messages) when the response came

connVars == <<servers, conn_idx, attempted, failed_server, sessions, exit_stack, acquired, released,
              tool_to_session, available_tools>>
loopVars == <<turn, errors_reported>>
turnVars == <<messages, process_query, iteration, warned, response, idx,
              assistant_content, aliases, model_calls, calls, emitted, round_base>>
vars == <<variant, pc, exc, line, connVars, loopVars, turnVars>>

\* process_query is left: its locals are gone
DiscardTurn ==
    /\ messages' = <<>>
    /\ process_query' = FALSE
    /\ iteration' = 0
    /\ warned' = FALSE
    /\ response' = <<>>
    /\ idx' = 0
    /\ assistant_content' = <<>>
    /\ aliases' = {}
    /\ model_calls' = 0
    /\ calls' = <<>>
    /\ emitted' = 0
    /\ round_base' = 0

Handle(server, kind) == [server |-> server, kind |-> kind]

\* no turn is running: the locals of process_query do not exist
NoTurn ==
    /\ messages = <<>>
    /\ process_query = FALSE
    /\ iteration = 0
    /\ warned = FALSE
    /\ response = <<>>
    /\ idx = 0
    /\ assistant_content = <<>>
    /\ aliases = {}
    /\ model_calls = 0
    /\ calls = <<>>
    /\ emitted = 0
    /\ round_base = 0

InitFor(v) ==
    /\ variant = v
    /\ pc = "start"
    /\ exc = "none"
    /\ servers \in (IF v = "multi" THEN Configs ELSE {<<tl>> : tl \in ToolLists})
    /\ conn_idx = 1
    /\ attempted = <<>>
    /\ failed_server = 0
    /\ sessions = <<>>
    /\ exit_stack = <<>>
    /\ acquired = <<>>
    /\ released = <<>>
    /\ tool_to_session = [n \in {} |-> 0]
    /\ available_tools = <<>>
    /\ turn = 0
    /\ errors_reported = 0
    /\ line = <<>>
    /\ NoTurn

(* ============ MCPChatBot: connection setup and teardown ================ *)
RegisterSessionsKeepingFirst(reg, tools, session) ==
    [n \in DOMAIN reg \cup {tools[i] : i \in 1..Len(tools)} |->
        IF n \in DOMAIN reg THEN reg[n] ELSE session]

\* self.tool_to_session[tool.name] = session, for each tool in list order
RECURSIVE RegisterSessions(_, _, _)
RegisterSessions(reg, tools, session) ==
    IF tools = <<>> THEN reg
    ELSE RegisterSessions(
            [n \in DOMAIN reg \cup {Head(tools)} |->
                IF n = Head(tools) THEN session ELSE reg[n]],
            Tail(tools), session)

\* the descriptor appended to available_tools for an advertised tool
Descriptor(name, server) == [name |-> name, server |-> server]

\* self.available_tools.append({...}), for each tool in list order
AppendDescriptors(catalog, tools, server) ==
    catalog \o [i \in 1..Len(tools) |-> Descriptor(tools[i], server)]

\* how far connect_to_server gets: the await that raises, or "ok"
ConnectOutcomes == {"launch", "session", "initialize", "list_tools", "ok"}

\* the context managers connect_to_server has entered on the exit stack
\* when it stops with outcome o
HandlesEntered(k, o) ==
    CASE o = "launch"  -> <<>>
      [] o = "session" -> <<Handle(k, "stdio")>>
      [] OTHER         -> <<Handle(k, "stdio"), Handle(k, "session")>>

AfterConnectFailureGoesOn(k) == "connect"

\* where main goes when connect_to_server(k) raised: the exception leaves
\* connect_to_servers (raise) and main's try, into the finally clause
AfterConnectFailure(k) == "cleanup"

\* connect_to_servers opens and parses server_config.json
LoadConfig ==
    /\ variant = "multi" /\ pc = "start"
    /\ \E ok \in BOOLEAN :
          IF ok THEN pc' = "connect" /\ exc' = exc
          ELSE pc' = "cleanup" /\ exc' = "ConfigError"
    /\ UNCHANGED <<variant, line, connVars, loopVars, turnVars>>

\* one pass of the for loop of connect_to_servers: connect_to_server(k)
ConnectToServer ==
    /\ variant = "multi" /\ pc = "connect" /\ conn_idx <= Len(servers)
    /\ \E o \in ConnectOutcomes :
        LET k == conn_idx
            entered == HandlesEntered(k, o)
        IN  /\ attempted' = Append(attempted, k)
            /\ failed_server' = IF o = "ok" THEN failed_server ELSE k
            /\ exit_stack' = exit_stack \o entered
            /\ acquired' = acquired \o entered
            /\ sessions' = IF o \in {"list_tools", "ok"} THEN Append(sessions, k)
                           ELSE sessions
            /\ IF o = "ok"
               THEN /\ tool_to_session' = RegisterSessions(tool_to_session, servers[k], k)
                    /\ available_tools' = AppendDescriptors(available_tools, servers[k], k)
                    /\ conn_idx' = conn_idx + 1
                    /\ pc' = "connect" /\ exc' = exc
               ELSE /\ UNCHANGED <<tool_to_session, available_tools>>
                    /\ pc' = AfterConnectFailure(k)
                    /\ conn_idx' = IF pc' = "connect" THEN conn_idx + 1 ELSE conn_idx
                    /\ exc' = IF pc' = "connect" THEN exc ELSE "ConnectionError"
    /\ UNCHANGED <<variant, line, servers, released, loopVars, turnVars>>

\* the for loop is over: connect_to_servers returns and main calls chat_loop
MultiChatLoopStart ==
    /\ variant = "multi" /\ pc = "connect" /\ conn_idx > Len(servers)
    /\ pc' = "input"
    /\ UNCHANGED <<variant, line, exc, connVars, loopVars, turnVars>>

CloseSessionsOnly(stack) == SelectSeq(Reverse(stack), LAMBDA h : h.kind = "session")

\* AsyncExitStack.aclose(): exits every entered context, last entered first
CloseAll(stack) == Reverse(stack)

\* main's finally clause: cleanup()
Cleanup ==
    /\ variant = "multi" /\ pc = "cleanup"
    /\ released' = released \o CloseAll(exit_stack)
    /\ exit_stack' = <<>>
    /\ pc' = "exit"
    /\ UNCHANGED <<variant, line, exc, servers, conn_idx, attempted, failed_server,
                   sessions, acquired, tool_to_session, available_tools, loopVars,
                   turnVars>>

(* ============ MCP_ChatBot: connect_to_server_and_run =================== *)
\* the two async with blocks are entered, the session is initialised, the
\* tools are listed and chat_loop starts; an await that raises leaves the
\* blocks entered so far
ConnectToServerAndRun ==
    /\ variant = "tools" /\ pc = "start"
    /\ \E o \in ConnectOutcomes :
        LET entered == HandlesEntered(1, o)
        IN  /\ attempted' = Append(attempted, 1)
            /\ failed_server' = IF o = "ok" THEN failed_server ELSE 1
            /\ exit_stack' = entered
            /\ acquired' = entered
            /\ sessions' = IF o \in {"initialize", "list_tools", "ok"} THEN <<1>>
                           ELSE sessions
            /\ IF o = "ok"
               THEN /\ available_tools' =
                          [i \in 1..Len(servers[1]) |-> Descriptor(servers[1][i], 1)]
                    /\ pc' = "input" /\ exc' = exc
               ELSE /\ available_tools' = available_tools
                    /\ pc' = "unwind" /\ exc' = "ConnectionError"
    /\ UNCHANGED <<variant, line, servers, conn_idx, released, tool_to_session, loopVars,
                   turnVars>>

\* control leaves the async with blocks (chat_loop returned, or an
\* exception passes through): the inner block exits first
LeaveContexts ==
    /\ variant = "tools" /\ pc = "unwind"
    /\ released' = released \o Reverse(exit_stack)
    /\ exit_stack' = <<>>
    /\ pc' = "exit"
    /\ UNCHANGED <<variant, line, exc, servers, conn_idx, attempted, failed_server,
                   sessions, acquired, tool_to_session, available_tools, loopVars,
                   turnVars>>

(* ========================= the model API =============================== *)
\* the responses the API may give to a transcript: the multi-server program
\* has no round ceiling, so there the model asks for tools only while the
\* transcript stays within MaxTranscript
Responses(v, transcript) ==
    { MakeResponse(sh, Len(transcript)) : sh \in
        { sh \in Shapes(v) :
            \/ v = "tools"
            \/ Len(transcript) + 2 * UsesBefore(sh, Len(sh)) <= MaxTranscript } }

\* one more model request in this turn
CountCall(v, n) == IF v = "multi" THEN Min(n + 1, CallCap) ELSE n + 1

(* ================= MCPChatBot: chat_loop and process_query ============= *)
IsQuitCaseSensitive(query) == query = QuitWord

\* query.lower() == 'quit'
IsQuit(query) == Lower(query) = QuitWord

InitialTranscriptEmpty(query) == <<>>

\* messages = [{'role': 'user', 'content': query}]
InitialTranscript(query) == <<UserMessage(query)>>

MultiAfterTurnErrorLeavesLoop == "cleanup"

\* where chat_loop goes when process_query raised: except Exception
\* reports the error and the while True loop goes on
MultiAfterTurnError == "input"

\* chat_loop reads a line; 'quit' breaks out of the loop into main's
\* finally clause, any other line starts process_query
MultiReadInput ==
    /\ variant = "multi" /\ pc = "input"
    /\ \E typed \in InputLines :
        LET query == Strip(typed)
        IN  /\ line' = typed
            /\ IF IsQuit(query)
               THEN /\ pc' = "cleanup"
                    /\ UNCHANGED <<loopVars, turnVars>>
               ELSE /\ turn < MaxTurns
                    /\ turn' = turn + 1
                    /\ messages' = InitialTranscript(query)
                    /\ process_query' = TRUE
                    /\ pc' = "while"
                    /\ response' = <<>> /\ idx' = 0
                    /\ assistant_content' = <<>> /\ aliases' = {}
                    /\ model_calls' = 0 /\ calls' = <<>> /\ emitted' = 0
                    /\ round_base' = 1
                    /\ UNCHANGED <<errors_reported, iteration, warned>>
    /\ UNCHANGED <<variant, exc, connVars>>

\* while process_query: ... await self._get_claude_response(messages)
MultiWhile ==
    /\ variant = "multi" /\ pc = "while"
    /\ IF process_query
       THEN /\ pc' = "claude"
            /\ model_calls' = CountCall(variant, model_calls)
       ELSE /\ pc' = "returned"
            /\ UNCHANGED model_calls
    /\ UNCHANGED <<variant, line, exc, connVars, loopVars, messages, process_query,
                   iteration, warned, response, idx, assistant_content, aliases,
                   calls, emitted, round_base>>

\* the model call returns a response (assistant_content = [] is a new list
\* object) or raises
MultiClaude ==
    /\ variant = "multi" /\ pc = "claude"
    /\ \/ \E r \in Responses(variant, messages) :
            /\ response' = r
            /\ assistant_content' = <<>> /\ aliases' = {}
            /\ idx' = 1
            /\ calls' = <<>> /\ emitted' = 0 /\ round_base' = Len(messages)
            /\ pc' = "for" /\ exc' = exc
       \/ /\ pc' = "except" /\ exc' = "ModelAPIError"
          /\ UNCHANGED <<response, assistant_content, aliases, idx, calls, emitted,
                         round_base>>
    /\ UNCHANGED <<variant, line, connVars, loopVars, messages, process_query, iteration,
                   warned, model_calls>>

\* a message whose content is the list object assistant_content shows every
\* later append to that list
WriteThrough(msgs, shared, blocks) ==
    [i \in 1..Len(msgs) |->
        IF i \in shared THEN [msgs[i] EXCEPT !.content = blocks] ELSE msgs[i]]

\* the transcript after messages.append({'role': 'assistant',
\* 'content': assistant_content}) with assistant_content = blocks
MultiAppendAssistant(msgs, shared, blocks) ==
    Append(WriteThrough(msgs, shared, blocks), AssistantMessage(blocks))

\* stands for the KeyError of a failed lookup
NoSession == 0

LookupWithFallback(reg, name) == IF name \in DOMAIN reg THEN reg[name] ELSE 1

\* self.tool_to_session[tool_name]
Lookup(reg, name) == IF name \in DOMAIN reg THEN reg[name] ELSE NoSession

AfterLookupInserting(reg, name) ==
    [n \in DOMAIN reg \cup {name} |-> IF n \in DOMAIN reg THEN reg[n] ELSE NoSession]

\* the registry after self.tool_to_session[tool_name]: reading a dict,
\* found or not, leaves it as it was
AfterLookup(reg, name) == reg

\* where control goes when call_tool raised in _handle_tool_call: nothing
\* catches it before chat_loop
MultiAfterToolRaise == "except"

MultiTextEndsTurnOnLongResponse(resp) == Len(resp) > 1

MultiTextEndsTurnOnAnyText(resp) == TRUE

\* process_query is over after a text block when it is the only block
MultiTextEndsTurn(resp) == Len(resp) = 1

\* one pass of for content in response.content, up to the next await
MultiFor ==
    /\ variant = "multi" /\ pc = "for"
    /\ IF idx > Len(response)
       THEN /\ pc' = "while" /\ exc' = exc
            /\ UNCHANGED <<messages, process_query, idx, assistant_content, aliases,
                           calls, emitted, tool_to_session>>
       ELSE LET content == response[idx]
                blocks == Append(assistant_content, content)
            IN  IF content.type = "text"
                THEN /\ emitted' = emitted + 1
                     /\ assistant_content' = blocks
                     /\ messages' = WriteThrough(messages, aliases, blocks)
                     /\ process_query' = IF MultiTextEndsTurn(response) THEN FALSE
                                         ELSE process_query
                     /\ idx' = idx + 1
                     /\ pc' = "for" /\ exc' = exc
                     /\ UNCHANGED <<aliases, calls, tool_to_session>>
                ELSE /\ assistant_content' = blocks
                     /\ messages' = MultiAppendAssistant(messages, aliases, blocks)
                     /\ aliases' = aliases \cup {Len(messages) + 1}
                     /\ tool_to_session' = AfterLookup(tool_to_session, content.name)
                     /\ IF Lookup(tool_to_session, content.name) # NoSession
                        THEN /\ calls' = Append(calls,
                                    [session |-> Lookup(tool_to_session, content.name),
                                     name |-> content.name, id |-> content.id])
                             /\ pc' = "call" /\ exc' = exc
                        ELSE /\ pc' = "except" /\ exc' = "KeyError"
                             /\ calls' = calls
                     /\ UNCHANGED <<process_query, idx, emitted>>
    /\ UNCHANGED <<variant, line, servers, conn_idx, attempted, failed_server,
                   sessions, exit_stack, acquired, released, available_tools,
                   loopVars, iteration, warned, response, model_calls, round_base>>

MultiAfterToolCallSkipsNext(i) == i + 2

\* the for loop's position after _handle_tool_call returned
MultiAfterToolCall(i) == i + 1

\* session.call_tool returns and _handle_tool_call appends the tool result,
\* or it raises
MultiToolReturns ==
    /\ variant = "multi" /\ pc = "call"
    /\ \/ /\ messages' = Append(messages,
                            ToolResultMessage(response[idx].id, ToolResult))
          /\ IF Len(response) = 1 /\ response[1].type = "text"
             THEN emitted' = emitted + 1 /\ process_query' = FALSE
             ELSE UNCHANGED <<emitted, process_query>>
          /\ idx' = MultiAfterToolCall(idx)
          /\ pc' = "for" /\ exc' = exc
       \/ /\ pc' = MultiAfterToolRaise /\ exc' = "ToolExecutionError"
          /\ UNCHANGED <<messages, emitted, process_query, idx>>
    /\ UNCHANGED <<variant, line, connVars, loopVars, iteration, warned, response,
                   assistant_content, aliases, model_calls, calls, round_base>>

\* process_query returned: chat_loop goes round
MultiTurnReturns ==
    /\ variant = "multi" /\ pc = "returned"
    /\ pc' = "input"
    /\ DiscardTurn
    /\ line' = <<>>
    /\ UNCHANGED <<variant, exc, connVars, loopVars>>

\* except Exception as e: the error is logged and printed
MultiReportError ==
    /\ variant = "multi" /\ pc = "except"
    /\ errors_reported' = errors_reported + 1
    /\ exc' = "none"
    /\ pc' = MultiAfterTurnError
    /\ DiscardTurn
    /\ line' = <<>>
    /\ UNCHANGED <<variant, connVars, turn>>

NextMulti ==
    \/ LoadConfig
    \/ ConnectToServer
    \/ MultiChatLoopStart
    \/ MultiReadInput
    \/ MultiWhile
    \/ MultiClaude
    \/ MultiFor
    \/ MultiToolReturns
    \/ MultiTurnReturns
    \/ MultiReportError
    \/ Cleanup

InitMulti == InitFor("multi")

SpecMulti == InitMulti /\ [][NextMulti]_vars

(* ================= MCP_ChatBot: chat_loop and process_query ============ *)
\* where chat_loop goes when process_query raised
ToolsAfterTurnError == "input"

\* chat_loop reads a line; 'quit' breaks out of the loop and control leaves
\* the async with blocks, any other line starts process_query
ToolsReadInput ==
    /\ variant = "tools" /\ pc = "input"
    /\ \E typed \in InputLines :
        LET query == Strip(typed)
        IN  /\ line' = typed
            /\ IF IsQuit(query)
               THEN /\ pc' = "unwind"
                    /\ UNCHANGED <<loopVars, turnVars>>
               ELSE /\ turn < MaxTurns
                    /\ turn' = turn + 1
                    /\ messages' = InitialTranscript(query)
                    /\ iteration' = 1
                    /\ pc' = "while"
                    /\ response' = <<>> /\ idx' = 0
                    /\ assistant_content' = <<>> /\ aliases' = {}
                    /\ model_calls' = 0 /\ calls' = <<>> /\ emitted' = 0
                    /\ round_base' = 1
                    /\ UNCHANGED <<errors_reported, process_query, warned>>
    /\ UNCHANGED <<variant, exc, connVars>>

WarningDueAtCeiling(i) == i >= max_iterations

\* if iteration > max_iterations: the warning is logged and printed
WarningDue(i) == i > max_iterations

ToolsLoopGuardOffByOne(i) == i <= max_iterations + 1

\* while iteration <= max_iterations
ToolsLoopGuard(i) == i <= max_iterations

\* the loop test; when it fails the loop is over and the warning is printed
\* if iteration > max_iterations
ToolsWhile ==
    /\ variant = "tools" /\ pc = "while"
    /\ IF ToolsLoopGuard(iteration)
       THEN /\ pc' = "claude"
            /\ model_calls' = CountCall(variant, model_calls)
            /\ UNCHANGED warned
       ELSE /\ warned' = WarningDue(iteration)
            /\ pc' = "returned"
            /\ UNCHANGED model_calls
    /\ UNCHANGED <<variant, line, exc, connVars, loopVars, messages, process_query,
                   iteration, response, idx, assistant_content, aliases, calls,
                   emitted, round_base>>

\* _get_claude_response returns a response, or raises through process_query
ToolsClaude ==
    /\ variant = "tools" /\ pc = "claude"
    /\ \/ \E r \in Responses(variant, messages) :
            /\ response' = r
            /\ idx' = 1
            /\ calls' = <<>> /\ emitted' = 0 /\ round_base' = Len(messages)
            /\ pc' = "for" /\ exc' = exc
       \/ /\ pc' = "except" /\ exc' = "ModelAPIError"
          /\ UNCHANGED <<response, idx, calls, emitted, round_base>>
    /\ UNCHANGED <<variant, line, connVars, loopVars, messages, process_query, iteration,
                   warned, assistant_content, aliases, model_calls>>

\* break: the loop is left with iteration unchanged, then the warning test
ToolsBreak ==
    /\ warned' = WarningDue(iteration)
    /\ pc' = "returned"

\* one pass of for content in response.content of _process_content_blocks,
\* up to its return or the next await
ToolsFor ==
    /\ variant = "tools" /\ pc = "for"
    /\ IF idx > Len(response)
       THEN /\ ToolsBreak
            /\ UNCHANGED <<idx, calls, emitted>>
       ELSE LET content == response[idx]
            IN  IF content.type = "text"
                THEN /\ emitted' = emitted + 1
                     /\ IF Len(response) = 1
                        THEN ToolsBreak /\ UNCHANGED idx
                        ELSE idx' = idx + 1 /\ pc' = "for" /\ UNCHANGED warned
                     /\ UNCHANGED calls
                ELSE /\ calls' = Append(calls,
                            [session |-> sessions[1], name |-> content.name,
                             id |-> content.id])
                     /\ pc' = "call"
                     /\ UNCHANGED <<idx, emitted, warned>>
    /\ UNCHANGED <<variant, line, exc, connVars, loopVars, messages, process_query,
                   iteration, response, assistant_content, aliases, model_calls,
                   round_base>>

ToolsAfterToolRaiseSwallowed == "while"

\* where control goes when call_tool raised in _process_content_blocks:
\* both except clauses on the way re-raise
ToolsAfterToolRaise == "except"

ToolsExtendResultFirst(msgs, content, result) ==
    msgs \o <<ToolResultMessage(content.id, result), AssistantMessage(<<content>>)>>

\* messages.extend([assistant message, tool-result message])
ToolsExtend(msgs, content, result) ==
    msgs \o <<AssistantMessage(<<content>>), ToolResultMessage(content.id, result)>>

\* call_tool returns: the transcript is extended, _process_content_blocks
\* returns True and iteration += 1; or call_tool raises
ToolsToolReturns ==
    /\ variant = "tools" /\ pc = "call"
    /\ \/ /\ messages' = ToolsExtend(messages, response[idx], ToolResult)
          /\ iteration' = iteration + 1
          /\ pc' = "while" /\ exc' = exc
       \/ /\ pc' = ToolsAfterToolRaise /\ exc' = "ToolExecutionError"
          /\ UNCHANGED <<messages, iteration>>
    /\ UNCHANGED <<variant, line, connVars, loopVars, process_query, warned, response, idx,
                   assistant_content, aliases, model_calls, calls, emitted,
                   round_base>>

\* process_query returned: chat_loop prints a newline and goes round
ToolsTurnReturns ==
    /\ variant = "tools" /\ pc = "returned"
    /\ pc' = "input"
    /\ DiscardTurn
    /\ line' = <<>>
    /\ UNCHANGED <<variant, exc, connVars, loopVars>>

\* except Exception as e: the error is logged and printed
ToolsReportError ==
    /\ variant = "tools" /\ pc = "except"
    /\ errors_reported' = errors_reported + 1
    /\ exc' = "none"
    /\ pc' = ToolsAfterTurnError
    /\ DiscardTurn
    /\ line' = <<>>
    /\ UNCHANGED <<variant, connVars, turn>>

NextTools ==
    \/ ConnectToServerAndRun
    \/ ToolsReadInput
    \/ ToolsWhile
    \/ ToolsClaude
    \/ ToolsFor
    \/ ToolsToolReturns
    \/ ToolsTurnReturns
    \/ ToolsReportError
    \/ LeaveContexts

InitTools == InitFor("tools")

SpecTools == InitTools /\ [][NextTools]_vars

(* ======================== both programs ================================ *)
Init == InitMulti \/ InitTools

Next == NextMulti \/ NextTools

Spec == Init /\ [][Next]_vars

(* ============================ the claims =============================== *)
\* a response of exactly one block, which is text
OneText(resp) == Len(resp) = 1 /\ resp[1].type = "text"

\* the first response of the turn is in hand and it is one text block
FirstIsOneText == model_calls = 1 /\ OneText(response)

\* C1: in both programs, when the first response of a turn is exactly one
\* text block, the turn ends after that round: from the arrival of the
\* response to the return of process_query there is no second model call,
\* no call_tool, no change of the transcript (it stays the one user
\* message), and the text has been printed exactly once when process_query
\* returns; the only way on is the return to chat_loop.
C1_SingleTextEndsTurn ==
    /\ [](FirstIsOneText =>
            /\ pc \in {"for", "while", "returned"}
            /\ calls = <<>>
            /\ Len(messages) = 1 /\ messages[1].type = "query"
            /\ emitted <= 1
            /\ (pc = "returned" => emitted = 1))
    /\ [][FirstIsOneText =>
            \/ /\ pc' \in {"for", "while", "returned"}
               /\ model_calls' = 1
               /\ response' = response
               /\ messages' = messages
            \/ pc = "returned" /\ pc' = "input"]_vars

\* a turn of one round has returned after printing its single text block
C1_Witness == pc = "returned" /\ FirstIsOneText /\ emitted = 1 /\ turn = 2

\* the messages appended since the last response arrived
RoundMessages == SubSeq(messages, round_base + 1, Len(messages))

\* the tool_use_ids of the tool-result messages of this round, in order
RoundResultIds ==
    LET results == SelectSeq(RoundMessages, LAMBDA m : m.type = "tool_result")
    IN  [i \in 1..Len(results) |-> results[i].tool_use_id]

\* the names of a sequence of blocks or of calls
NamesOf(s) == [i \in 1..Len(s) |-> s[i].name]

\* the round of the last response is over, all its tool calls succeeded
\* (process_query is back at its loop test), and it asked for tools
RoundDone(v) == variant = v /\ pc = "while" /\ Len(ToolUses(response)) >= 1

\* every tool-use block of the response was called, in block order, and
\* the round appended one tool result per block, in block order, with its id
AllDispatched ==
    /\ IdsOf(calls) = IdsOf(ToolUses(response))
    /\ NamesOf(calls) = NamesOf(ToolUses(response))
    /\ RoundResultIds = IdsOf(ToolUses(response))

\* C2: in MCPChatBot.process_query, when a response holds N >= 1 tool-use
\* blocks and every call succeeds, the round issues exactly N call_tool
\* requests in block order and appends exactly N tool-result messages, the
\* k-th with the id of the k-th tool-use block.
C2_MultiDispatchesAll == RoundDone("multi") => AllDispatched

\* a round of two tool-use blocks is over in the multi-server program
C2_Witness == RoundDone("multi") /\ Len(ToolUses(response)) = 2 /\ Len(calls) = 2

\* a round with a text block before its tool-use block is over
C2_WitnessTextFirst ==
    RoundDone("multi") /\ Len(response) = 2 /\ response[1].type = "text"

\* C3: in MCP_ChatBot, when a response holds N >= 1 tool-use blocks and
\* every call succeeds, exactly N call_tool requests are issued before the
\* next model call, in block order, and N tool-result messages are appended,
\* each with the id of its block.
C3_ToolsDispatchesAll == RoundDone("tools") => AllDispatched

\* C4: in MCP_ChatBot.process_query a turn never makes more than
\* max_iterations model calls; once the tenth round has dispatched its tool
\* (iteration = 11) the only way on is the normal return: no model call is
\* in flight, no exception is raised.
C4_RoundCeiling ==
    variant = "tools" =>
        /\ model_calls <= max_iterations
        /\ (iteration > max_iterations =>
                /\ model_calls = max_iterations
                /\ pc \in {"while", "returned"}
                /\ exc = "none")
        /\ (pc = "returned" => exc = "none")

\* ten rounds each dispatched a tool and process_query returned
C4_Witness ==
    /\ variant = "tools" /\ pc = "returned" /\ exc = "none"
    /\ model_calls = max_iterations /\ iteration = max_iterations + 1
    /\ Len(messages) = 1 + 2 * max_iterations

\* the multi-server program keeps running: a step that can be taken is
\* taken, and a model or tool call that is awaited comes back
FairSpecMulti ==
    /\ SpecMulti
    /\ WF_vars(MultiWhile) /\ WF_vars(MultiClaude) /\ WF_vars(MultiFor)
    /\ WF_vars(MultiToolReturns) /\ WF_vars(MultiTurnReturns)
    /\ WF_vars(MultiReportError)

\* C5: in MCPChatBot.process_query every turn is guarded against endless
\* looping: whatever the model answers, once a model call of a turn is made
\* the turn is eventually left (process_query returns, or raises).
C5_MultiTurnTerminates ==
    (variant = "multi" /\ pc = "claude") ~> (pc \in {"returned", "except"})

\* all but the last element
Front(s) == SubSeq(s, 1, Len(s) - 1)

\* C6: in MCPChatBot, a tool-use block whose name is no key of
\* tool_to_session makes the lookup fail: call_tool is never issued for a
\* name outside the registry; when the lookup failed, the calls of the round
\* are those of the earlier tool-use blocks only, no tool result was
\* appended for the block, and the next step leaves the turn (chat_loop's
\* handler), so no later block is dispatched and no model call follows.
C6_UnknownToolAborts ==
    /\ [](variant = "multi" =>
            /\ \A i \in 1..Len(calls) :
                  /\ calls[i].name \in DOMAIN tool_to_session
                  /\ calls[i].session = tool_to_session[calls[i].name]
            /\ (exc = "KeyError" =>
                  /\ pc = "except"
                  /\ response[idx].type = "tool_use"
                  /\ response[idx].name \notin DOMAIN tool_to_session
                  /\ IdsOf(calls) = IdsOf(ToolUses(SubSeq(response, 1, idx - 1)))
                  /\ RoundResultIds = IdsOf(calls)))
    /\ [][variant = "multi" /\ exc = "KeyError" =>
            pc' = "input" /\ model_calls' = 0 /\ calls' = <<>> /\ messages' = <<>>]_vars

\* a lookup failed on the second block of a response, after a first tool
\* call that succeeded, in a registry that is not empty
C6_Witness ==
    /\ variant = "multi" /\ exc = "KeyError" /\ idx = 2 /\ Len(calls) = 1
    /\ DOMAIN tool_to_session # {}

\* a lookup failed with an empty registry
C6_WitnessEmptyRegistry ==
    variant = "multi" /\ exc = "KeyError" /\ DOMAIN tool_to_session = {}

\* C7: in both programs a call_tool that raises ends the turn: the failed
\* call is the last one issued, it is the call of the block the loop is at,
\* no tool result is appended for it (the results of the round are those of
\* the calls before it), process_query is left by the exception, not by a
\* return, and the next step is chat_loop's handler: no further tool call
\* and no further model call is made in the turn.
C7_ToolFailureIsTurnFatal ==
    /\ [](exc = "ToolExecutionError" =>
            /\ pc = "except"
            /\ calls # <<>>
            /\ calls[Len(calls)].id = response[idx].id
            /\ RoundResultIds = IdsOf(Front(calls))
            /\ \A i \in 1..Len(messages) :
                  messages[i].tool_use_id # response[idx].id)
    /\ [][exc = "ToolExecutionError" =>
            /\ pc' = "input"
            /\ errors_reported' = errors_reported + 1
            /\ model_calls' = 0 /\ calls' = <<>>]_vars

\* a tool call raised in the single-server program after an earlier round
\* whose tool call succeeded
C7_Witness ==
    /\ variant = "tools" /\ exc = "ToolExecutionError" /\ pc = "except"
    /\ iteration = 2

\* a tool call raised in the multi-server program on the second tool-use
\* block of a response
C7_WitnessMulti ==
    /\ variant = "multi" /\ exc = "ToolExecutionError" /\ pc = "except"
    /\ Len(calls) = 2

\* the session is over, or ending
Ending == pc \in {"cleanup", "unwind", "exit"}

\* C8: in both chat loops a turn that raised does not end the session: the
\* handler reports the error and the loop awaits the next line; the session
\* ends only from the prompt (a quit line) or at startup, never out of a
\* turn; and every line read at the prompt that does not end the session
\* starts a new turn with that line as its query.
C8_FailedTurnKeepsSession ==
    /\ [][pc = "except" =>
            /\ pc' = "input"
            /\ errors_reported' = errors_reported + 1
            /\ exc' = "none"
            /\ turn' = turn]_vars
    /\ [][~Ending /\ Ending' => pc \in {"input", "start", "connect"}]_vars
    /\ [][pc = "input" /\ ~Ending' =>
            /\ pc' = "while"
            /\ turn' = turn + 1
            /\ Len(messages') = 1 /\ messages'[1].type = "query"
            /\ ~IsQuit(messages'[1].body)]_vars

\* a second turn is running after a first turn that failed
C8_Witness == pc = "claude" /\ turn = 2 /\ errors_reported = 1

\* how often x occurs in the sequence s
Count(s, x) == Cardinality({i \in 1..Len(s) : s[i] = x})

\* the handles entered and not yet exited
OpenHandles == {acquired[i] : i \in 1..Len(acquired)} \ {released[i] : i \in 1..Len(released)}

\* C9: in the multi-server program no handle is ever released twice or
\* without having been acquired, and when main has ended -- after quit, after
\* turns that failed, or after a connection failure at startup -- every
\* handle that was acquired has been released exactly once and none is open.
C9_TeardownReleasesAll ==
    variant = "multi" =>
        /\ \A i \in 1..Len(released) :
              /\ Count(released, released[i]) = 1
              /\ Count(acquired, released[i]) = 1
        /\ (pc = "exit" =>
              /\ exit_stack = <<>>
              /\ OpenHandles = {}
              /\ \A i \in 1..Len(acquired) : Count(released, acquired[i]) = 1)

\* main ended on a connection failure that left the second server's
\* transport open after the first server was connected
C9_Witness ==
    /\ variant = "multi" /\ pc = "exit" /\ exc = "ConnectionError"
    /\ Len(acquired) = 3 /\ Len(released) = 3

\* main ended on quit after a turn that failed, with two servers connected
C9_WitnessAfterFailedTurn ==
    /\ variant = "multi" /\ pc = "exit" /\ exc = "none"
    /\ errors_reported >= 1 /\ Len(released) = 4

\* C10: connect_to_servers is fail-fast: once connect_to_server raised for
\* the k-th server the exception is on its way out of main (finally clause,
\* then exit), the servers attempted are exactly the first k, none after it
\* is ever attempted, and chat_loop is never entered: no line is read and no
\* turn is started.
C10_ConnectFailFast ==
    (variant = "multi" /\ failed_server # 0) =>
        /\ pc \in {"cleanup", "exit"}
        /\ exc = "ConnectionError"
        /\ attempted = [i \in 1..failed_server |-> i]
        /\ turn = 0 /\ messages = <<>> /\ model_calls = 0

\* the first of two configured servers failed and main has ended
C10_Witness ==
    /\ variant = "multi" /\ failed_server = 1 /\ Len(servers) = 2 /\ pc = "exit"

\* the servers connect_to_server has returned from: the loop stops at the
\* first failure, so they are the servers before conn_idx
Connected == 1..(conn_idx - 1)

\* the connected servers that advertise the tool name n
Advertisers(n) == {k \in Connected : \E i \in 1..Len(servers[k]) : servers[k][i] = n}

\* the largest element of a non-empty set of numbers
Largest(S) == CHOOSE k \in S : \A j \in S : j <= k

\* C11: in MCPChatBot the keys of tool_to_session are the names advertised
\* by the connected servers, each mapped to one session, which is the
\* session of the last connected server that advertises the name; and every
\* call_tool issued for a name went to that session.
C11_LastRegistrationWins ==
    variant = "multi" =>
        /\ DOMAIN tool_to_session = {n \in ToolNames : Advertisers(n) # {}}
        /\ \A n \in DOMAIN tool_to_session :
              tool_to_session[n] = Largest(Advertisers(n))
        /\ \A i \in 1..Len(calls) :
              calls[i].session = Largest(Advertisers(calls[i].name))

\* a tool that both of two servers advertise was called on the second one
C11_Witness ==
    /\ variant = "multi" /\ pc = "call" /\ Len(servers) = 2
    /\ Cardinality(Advertisers(response[idx].name)) = 2
    /\ calls[Len(calls)].session = 2

\* C12: in MCPChatBot the catalog sent to the model holds at most one
\* descriptor per tool name, the one registered last.
C12_CatalogNamesUnique ==
    variant = "multi" =>
        \A i, j \in 1..Len(available_tools) :
            available_tools[i].name = available_tools[j].name => i = j


\* the spellings of the word quit: each letter in lower or upper case
QuitSpellings ==
    { s \in [1..4 -> {"q", "Q", "u", "U", "i", "I", "t", "T"}] :
        /\ s[1] \in {"q", "Q"} /\ s[2] \in {"u", "U"}
        /\ s[3] \in {"i", "I"} /\ s[4] \in {"t", "T"} }

\* the line just read ended the session: no turn, no transcript, no model call
LineEndsSession ==
    /\ Ending'
    /\ turn' = turn
    /\ messages' = <<>> /\ model_calls' = 0

\* the line just read started exactly one turn, with the stripped line as
\* its query
LineStartsTurn ==
    /\ pc' = "while"
    /\ turn' = turn + 1
    /\ messages' = <<UserMessage(Strip(line'))>>

\* C13 as stated: in both chat loops a line equal to quit in any letter
\* case ends the session without a turn, and every other line starts
\* exactly one new turn.
C13_QuitLineExact ==
    [][pc = "input" =>
          IF line' \in QuitSpellings THEN LineEndsSession ELSE LineStartsTurn]_vars

\* C13 amended: in both chat loops a line that, once its surrounding
\* whitespace is stripped, equals quit in any letter case ends the session
\* without a turn (no model call is made for it), and every other line
\* starts exactly one new turn whose query is the stripped line.
C13_QuitLineStripped ==
    [][pc = "input" =>
          IF Strip(line') \in QuitSpellings
          THEN LineEndsSession
          ELSE LineStartsTurn]_vars

\* the session was ended by an upper-case QUIT typed after a completed turn
C13_Witness ==
    /\ Ending /\ turn = 1
    /\ line = <<"Q", "U", "I", "T">>

\* the session was ended by a padded line, which is no spelling of quit
C13_WitnessPadded ==
    /\ Ending /\ line \notin QuitSpellings /\ Strip(line) \in QuitSpellings

\* a line that only begins with quit started a turn
C13_WitnessOtherLine ==
    /\ pc = "while" /\ model_calls = 0
    /\ line = <<" ", "q", "u", "i", "t", "s">>


\* the assistant messages appended in the round of the last response
RoundAssistantMessages == SelectSeq(RoundMessages, LAMBDA m : m.type = "blocks")

\* C14: in both programs, when the round of a response with tool-use blocks
\* is over, the round has appended exactly one assistant message, whose
\* content is the whole block sequence of the response, and after it only
\* the tool-result messages of the response.
C14_OneAssistantMessagePerResponse ==
    (pc = "while" /\ Len(ToolUses(response)) >= 1) =>
        /\ Len(RoundAssistantMessages) = 1
        /\ RoundAssistantMessages[1].content = response
        /\ RoundMessages[1].type = "blocks"
        /\ \A i \in 2..Len(RoundMessages) : RoundMessages[i].type = "tool_result"


\* process_query is running
InTurn == pc \in {"while", "claude", "for", "call"}

\* C15: in MCPChatBot.process_query the transcript is append-only and never
\* mutated in place: over every step of a turn its length does not decrease
\* and every message already appended keeps its role and its content, the
\* block list of an assistant message included.
C15_TranscriptAppendOnly ==
    [][(variant = "multi" /\ InTurn /\ InTurn') =>
          /\ Len(messages') >= Len(messages)
          /\ \A i \in 1..Len(messages) :
                /\ messages'[i].role = messages[i].role
                /\ messages'[i].content = messages[i].content
                /\ messages'[i].body = messages[i].body]_vars


\* message m is an assistant message holding a tool-use block with this id
HoldsToolUse(m, id) ==
    /\ m.type = "blocks"
    /\ \E b \in 1..Len(m.content) :
          m.content[b].type = "tool_use" /\ m.content[b].id = id

\* C16: in both programs, in every reachable state every tool-result message
\* of the transcript comes after an assistant message that holds the
\* tool-use block with the result's tool_use_id, and the calls issued for a
\* response are, in order, the first of its tool-use blocks.
C16_CausalOrder ==
    /\ \A j \in 1..Len(messages) :
          messages[j].type = "tool_result" =>
              \E i \in 1..(j - 1) : HoldsToolUse(messages[i], messages[j].tool_use_id)
    /\ Len(calls) <= Len(ToolUses(response))
    /\ IdsOf(calls) = SubSeq(IdsOf(ToolUses(response)), 1, Len(calls))

\* the second tool result of a response of two tool-use blocks was appended
C16_Witness ==
    /\ variant = "multi" /\ Len(calls) = 2
    /\ calls[1].id # calls[2].id
    /\ messages[Len(messages)].type = "tool_result"
    /\ messages[Len(messages)].tool_use_id = calls[2].id

\* the single-server program appended the result of a tool-use block that
\* came after a text block
C16_WitnessTools ==
    /\ variant = "tools" /\ pc = "while" /\ Len(calls) = 1
    /\ response[1].type = "text"
    /\ messages[Len(messages)].type = "tool_result"


\* C17: in both programs, once every tool call of a response that holds a
\* tool-use block (first, last or next to text blocks) has succeeded, the
\* turn does not end on that response: the next step of process_query is
\* another model call; only the single-server program may return instead,
\* and only when iteration has passed max_iterations.
C17_ToolUseContinuesLoop ==
    /\ [][(pc = "while" /\ Len(ToolUses(response)) >= 1) =>
            \/ pc' = "claude" /\ messages' = messages
            \/ /\ variant = "tools" /\ iteration > max_iterations
               /\ pc' = "returned"]_vars
    /\ []((pc = "returned" /\ Len(ToolUses(response)) >= 1) =>
            (variant = "tools" /\ iteration > max_iterations))

\* the model is called again after a response whose tool-use block came
\* after a text block
C17_Witness ==
    /\ variant = "multi" /\ pc = "claude" /\ model_calls = 2
    /\ Len(response) = 2
    /\ response[1].type = "text" /\ response[2].type = "tool_use"

\* the same in the single-server program, tool-use block first
C17_WitnessTools ==
    /\ variant = "tools" /\ pc = "claude" /\ model_calls = 2
    /\ Len(response) = 2
    /\ response[1].type = "tool_use" /\ response[2].type = "text"


\* the first model request of the current turn is in flight
FirstRequestOfTurn == pc = "claude" /\ model_calls = 1

\* C18: in both programs the transcript is per turn: the first model
\* request of every turn, also of a turn that follows a failed or a
\* completed one, carries exactly one message, the user message with the
\* query typed for this turn, and nothing of an earlier turn.
C18_TranscriptPerTurn ==
    FirstRequestOfTurn => messages = <<UserMessage(Strip(line))>>

\* the first request of a second turn, made after the first turn failed
C18_Witness ==
    /\ FirstRequestOfTurn /\ turn = 2 /\ errors_reported = 1
    /\ Strip(line) = <<"q", "u", "i", "t", "s">>

\* the first request of a second turn, made after the first turn returned
C18_WitnessAfterReturn ==
    /\ FirstRequestOfTurn /\ turn = 2 /\ errors_reported = 0
    /\ variant = "tools"


\* control is in chat_loop, process_query, _get_claude_response or
\* _handle_tool_call of the multi-server program
InChat ==
    /\ variant = "multi"
    /\ pc \in {"input", "while", "claude", "for", "call", "returned", "except"}

\* C19: in MCPChatBot the registry and the connection set are written only
\* while connecting: no step of chat_loop, process_query,
\* _get_claude_response or _handle_tool_call, whether it succeeds or
\* raises, changes tool_to_session, available_tools or sessions, so every
\* model request of the session carries the same catalog.
C19_RegistryReadOnlyInChat ==
    [][InChat =>
          /\ tool_to_session' = tool_to_session
          /\ available_tools' = available_tools
          /\ sessions' = sessions]_vars

\* a second turn asks the model after the first turn died of an unknown
\* tool name, with two servers connected
C19_Witness ==
    /\ InChat /\ pc = "claude" /\ turn = 2 /\ errors_reported = 1
    /\ Len(sessions) = 2 /\ Len(available_tools) >= 2

\* a lookup of a name that is no key of the registry has just failed
C19_WitnessFailedLookup ==
    /\ InChat /\ pc = "except" /\ exc = "KeyError"
    /\ Len(sessions) >= 1


\* every one of the max_iterations rounds of the turn dispatched a tool:
\* each such round adds an assistant message and a tool result
CutOffByCeiling ==
    /\ model_calls = max_iterations
    /\ Len(messages) = 1 + 2 * max_iterations
    /\ messages[Len(messages)].type = "tool_result"

\* C20: in MCP_ChatBot.process_query the warning 'Maximum iterations
\* reached' is printed exactly when the turn was cut off by the ceiling,
\* that is when each of the max_iterations rounds dispatched a tool; a turn
\* whose tenth or an earlier response ended it returns without warning,
\* and no warning is printed before process_query returns.
C20_WarningIffCutOff ==
    variant = "tools" =>
        /\ (pc = "returned" => (warned <=> CutOffByCeiling))
        /\ (warned => pc = "returned")

\* a turn returned with the warning after ten dispatched rounds
C20_Witness ==
    /\ variant = "tools" /\ pc = "returned" /\ warned /\ CutOffByCeiling

\* a turn returned without warning: its tenth response was a lone text block
C20_WitnessTenthEndsNormally ==
    /\ variant = "tools" /\ pc = "returned" /\ ~warned
    /\ model_calls = max_iterations
    /\ OneText(response)

====
